---- MODULE Spec2Model ----
(***************************************************************************)
(* Model of app.py: a Streamlit page that loads a cached Keras model and   *)
(* two cached MinMaxScalers, derives a 14x10 calendar feature table from   *)
(* the sidebar inputs and renders a 7-row forecast table and a chart.      *)
(*                                                                         *)
(* Two specifications are given.  SpecFE exercises the pure function       *)
(* generate_feature_engineering over a range of inputs.  Spec is the page  *)
(* itself: every browser session re-executes the script top to bottom on   *)
(* each interaction, sharing the st.cache_resource caches.                 *)
(***************************************************************************)
EXTENDS Integers, Sequences, FiniteSets, TLC

VARIABLES
    fe_in,        \* arguments of a generate_feature_engineering call
    fe_out,       \* its returned table (<<>> before the call)
    artifact,     \* state of the file LSTM_model.h5 on disk
    modelCache,   \* st.cache_resource entry of load_model (0 = empty, else load serial)
    scalerCache,  \* st.cache_resource entry of create_scalers
    readLog,      \* <<model, scalers>> pairs read by predict_prices calls
    pc,           \* per session: position of the script run
    button,       \* per session: value returned by st.sidebar.button in this run
    inputs,       \* per session: sidebar widget values
    predictions,  \* per session: vector returned by the last predict_prices call
    table,        \* per session: rows shown by st.table (<<>> = nothing shown)
    chart,        \* per session: points shown by st.pyplot (<<>> = nothing shown)
    error,        \* per session: text shown by st.error ("" = nothing shown)
    raised        \* per session: text of the exception raised inside the try block

feVars  == <<fe_in, fe_out>>
appVars == <<artifact, modelCache, scalerCache, readLog, pc, button, inputs,
             predictions, table, chart, error, raised>>
vars    == <<fe_in, fe_out, artifact, modelCache, scalerCache, readLog, pc,
             button, inputs, predictions, table, chart, error, raised>>

----------------------------------------------------------------------------
(* Bounds *)

NumYears       == 2      \* start dates of SpecFE range over this many years
MaxNights      == 2      \* night counts offered to SpecFE range over 1..MaxNights
NumSessions    == 2      \* concurrently served browser sessions
NumScalerFits  == 2      \* distinguishable outcomes of the random scaler fit

----------------------------------------------------------------------------
(* Calendar arithmetic of datetime: a date is [year, month, day]; adding a *)
(* timedelta goes through the proleptic Gregorian ordinal.                 *)

DAYS_IN_MONTH     == <<31, 28, 31, 30, 31, 30, 31, 31, 30, 31, 30, 31>>
DAYS_BEFORE_MONTH == <<0, 31, 59, 90, 120, 151, 181, 212, 243, 273, 304, 334>>

is_leap(year) == year % 4 = 0 /\ (year % 100 # 0 \/ year % 400 = 0)

days_before_year(year) ==
    LET y == year - 1 IN y * 365 + (y \div 4) - (y \div 100) + (y \div 400)

days_before_month(year, month) ==
    DAYS_BEFORE_MONTH[month] + (IF month > 2 /\ is_leap(year) THEN 1 ELSE 0)

ymd2ord(d) == days_before_year(d.year) + days_before_month(d.year, d.month) + d.day

ord2ymd(ord) ==
    LET n0   == ord - 1
        n400 == n0 \div 146097
        na   == n0 % 146097
        n100 == na \div 36524
        nb   == na % 36524
        n4   == nb \div 1461
        nc   == nb % 1461
        n1   == nc \div 365
        n    == nc % 365
        year == n400 * 400 + 1 + n100 * 100 + n4 * 4 + n1
        leapyear == n1 = 3 /\ (n4 # 24 \/ n100 = 3)
        m0   == (n + 50) \div 32
        p0   == DAYS_BEFORE_MONTH[m0] + (IF m0 > 2 /\ leapyear THEN 1 ELSE 0)
        month == IF p0 > n THEN m0 - 1 ELSE m0
        preceding == IF p0 > n
                     THEN p0 - (DAYS_IN_MONTH[month]
                                + (IF month = 2 /\ leapyear THEN 1 ELSE 0))
                     ELSE p0
    IN  IF n1 = 4 \/ n100 = 4
        THEN [year |-> year - 1, month |-> 12, day |-> 31]
        ELSE [year |-> year, month |-> month, day |-> n - preceding + 1]

\* date + timedelta(days=k)
add_days(d, k) == ord2ymd(ymd2ord(d) + k)

\* variant: weekday numbered from Sunday = 0
dayofweek_from_sunday(d) == ymd2ord(d) % 7

\* date.weekday() / Series.dt.dayofweek: Monday is 0
dayofweek(d) == (ymd2ord(d) + 6) % 7

\* Series.dt.quarter
quarter(d) == ((d.month - 1) \div 3) + 1

DIGITS == <<"0", "1", "2", "3", "4", "5", "6", "7", "8", "9">>

\* two-digit zero-padded decimal, as %m and %d print
pad2(n) == DIGITS[((n \div 10) % 10) + 1] \o DIGITS[(n % 10) + 1]

\* variant: month and day printed without zero padding
strftime_md_unpadded(d) == ToString(d.month) \o "-" \o ToString(d.day)

\* date.strftime('%m-%d')
strftime_md(d) == pad2(d.month) \o "-" \o pad2(d.day)

----------------------------------------------------------------------------
(* Feature Engineer *)

WINDOW == 14     \* rows of the feature table: range(14)

\* variant: meteorological seasons shifted by one month
assign_season_shifted(month) ==
    IF month \in {1, 2, 3} THEN 3
    ELSE IF month \in {4, 5, 6} THEN 0
    ELSE IF month \in {7, 8, 9} THEN 1
    ELSE 2

assign_season(month) ==
    IF month \in {12, 1, 2} THEN 3
    ELSE IF month \in {3, 4, 5} THEN 0
    ELSE IF month \in {6, 7, 8} THEN 1
    ELSE 2

holidays == {"01-01", "02-14", "07-04", "11-11", "11-23", "11-27", "11-28",
             "12-25", "12-31"}

\* variant: the column list without price_lag
feature_columns_without_lag == <<"minimum_nights", "maximum_nights",
                                 "day_of_week", "Month", "Season", "quarter",
                                 "is_holiday", "day", "year">>

\* the selected columns, in the order handed to the model
feature_columns == <<"minimum_nights", "maximum_nights", "price_lag",
                     "day_of_week", "Month", "Season", "quarter",
                     "is_holiday", "day", "year">>

\* dates = [start_date + timedelta(days=i) for i in range(14)]
window_dates(start_date) == [i \in 1..WINDOW |-> add_days(start_date, i - 1)]

\* the DataFrame df, one record per row, before the column selection
feature_frame(start_date, avg_price, min_nights, max_nights) ==
    LET dates == window_dates(start_date) IN
    [i \in 1..WINDOW |->
        [date           |-> dates[i],
         day_of_week    |-> dayofweek(dates[i]),
         Month          |-> dates[i].month,
         Season         |-> assign_season(dates[i].month),
         quarter        |-> quarter(dates[i]),
         Month_Day      |-> strftime_md(dates[i]),
         is_holiday     |-> IF strftime_md(dates[i]) \in holidays THEN 1 ELSE 0,
         day            |-> dates[i].day,
         year           |-> dates[i].year,
         minimum_nights |-> min_nights,
         maximum_nights |-> max_nights,
         price_lag      |-> avg_price]]

\* df[features].values: a sequence of rows, each a sequence of cell values
generate_feature_engineering(start_date, avg_price, min_nights, max_nights) ==
    LET df == feature_frame(start_date, avg_price, min_nights, max_nights) IN
    [i \in 1..Len(df) |->
        [j \in 1..Len(feature_columns) |-> df[i][feature_columns[j]]]]

----------------------------------------------------------------------------
(* Inputs *)

\* reference calendar used only to enumerate valid input dates
MonthLength(y, m) ==
    IF m = 2 THEN (IF y % 4 = 0 /\ (y % 100 # 0 \/ y % 400 = 0) THEN 29 ELSE 28)
    ELSE IF m \in {4, 6, 9, 11} THEN 30 ELSE 31

ValidDates(years) ==
    UNION { UNION { { [year |-> y, month |-> m, day |-> d] : d \in 1..MonthLength(y, m) }
                    : m \in 1..12 } : y \in years }

FEYears    == 2023 .. (2023 + NumYears - 1)
FEDates    == ValidDates(FEYears)
PriceInputs == {0, 100}          \* number_input(min_value=0.0, value=100.0)
NightInputs == 1..MaxNights      \* number_input(min_value=1)

NoInput == [start_date |-> [year |-> 1, month |-> 1, day |-> 1],
            avg_price |-> 0, min_nights |-> 1, max_nights |-> 1]

----------------------------------------------------------------------------
(* Feature Engineer exercised on its own *)

InitApp ==
    /\ artifact \in {"ok", "missing", "malformed"}
    /\ modelCache = 0
    /\ scalerCache = [id |-> 0, fit |-> 0]     \* no scalers yet
    /\ readLog = {}
    /\ pc = [s \in 1..NumSessions |-> "new"]
    /\ button = [s \in 1..NumSessions |-> FALSE]
    /\ inputs = [s \in 1..NumSessions |-> NoInput]
    /\ predictions = [s \in 1..NumSessions |-> <<>>]
    /\ table = [s \in 1..NumSessions |-> <<>>]
    /\ chart = [s \in 1..NumSessions |-> <<>>]
    /\ error = [s \in 1..NumSessions |-> ""]
    /\ raised = [s \in 1..NumSessions |-> ""]

InitFE ==
    /\ fe_in \in [start_date : FEDates, avg_price : PriceInputs,
                  min_nights : NightInputs, max_nights : NightInputs]
    /\ fe_out = <<>>
    /\ InitApp
    /\ artifact = "ok"

CallFE ==
    /\ fe_out = <<>>
    /\ fe_out' = generate_feature_engineering(fe_in.start_date, fe_in.avg_price,
                                              fe_in.min_nights, fe_in.max_nights)
    /\ UNCHANGED <<fe_in, appVars>>

NextFE == CallFE

SpecFE == InitFE /\ [][NextFE]_vars

----------------------------------------------------------------------------
(* Reference calendar for the properties: a day-by-day successor and a     *)
(* weekday counted from Sunday 2023-01-01, independent of the ordinal      *)
(* arithmetic above.                                                       *)

NextDay(d) ==
    IF d.day < MonthLength(d.year, d.month)
    THEN [d EXCEPT !.day = d.day + 1]
    ELSE IF d.month < 12
    THEN [year |-> d.year, month |-> d.month + 1, day |-> 1]
    ELSE [year |-> d.year + 1, month |-> 1, day |-> 1]

RECURSIVE DayAfter(_, _)
DayAfter(d, k) == IF k = 0 THEN d ELSE DayAfter(NextDay(d), k - 1)

RECURSIVE DaysInMonthsBefore(_, _)
DaysInMonthsBefore(y, m) ==
    IF m = 1 THEN 0 ELSE DaysInMonthsBefore(y, m - 1) + MonthLength(y, m - 1)

RECURSIVE DaysInYearsBefore(_)
DaysInYearsBefore(y) ==
    IF y <= 2023 THEN 0
    ELSE DaysInYearsBefore(y - 1) + DaysInMonthsBefore(y - 1, 12) + 31

\* 2023-01-01 was a Sunday (6 with Monday = 0)
RefWeekday(d) ==
    (6 + DaysInYearsBefore(d.year) + DaysInMonthsBefore(d.year, d.month) + d.day - 1) % 7

SeasonTable == <<3, 3, 0, 0, 0, 1, 1, 1, 2, 2, 2, 3>>

HolidayMonthDays == {<<1, 1>>, <<2, 14>>, <<7, 4>>, <<11, 11>>, <<11, 23>>,
                     <<11, 27>>, <<11, 28>>, <<12, 25>>, <<12, 31>>}

RefHoliday(d) == IF <<d.month, d.day>> \in HolidayMonthDays THEN 1 ELSE 0

FECalled == fe_out # <<>>

----------------------------------------------------------------------------
(* Properties of the Feature Engineer (checked under SpecFE) *)

\* C3: the returned table has exactly 14 rows and 10 columns, and in every
\* row minimum_nights = min_nights, maximum_nights = max_nights and
\* price_lag = avg_price.
C3_ShapeAndConstants ==
    FECalled =>
        /\ Len(fe_out) = 14
        /\ \A i \in 1..Len(fe_out) :
              /\ Len(fe_out[i]) = 10
              /\ fe_out[i][1] = fe_in.min_nights
              /\ fe_out[i][2] = fe_in.max_nights
              /\ fe_out[i][3] = fe_in.avg_price

C3_Witness ==
    /\ FECalled
    /\ fe_in.min_nights = 1
    /\ fe_in.max_nights = 2
    /\ fe_in.avg_price = 100

\* C6: in every row is_holiday is 1 exactly when the month and day of the
\* row's date (start_date plus the row index) is one of the nine listed
\* month-days, whatever the year, and 0 otherwise.
C6_HolidayFlag ==
    FECalled =>
        \A i \in 1..Len(fe_out) :
            fe_out[i][8] = RefHoliday(DayAfter(fe_in.start_date, i - 1))

\* a window over Christmas and the turn of the year: three rows flagged
C6_Witness ==
    /\ FECalled
    /\ fe_in.start_date = [year |-> 2023, month |-> 12, day |-> 20]
    /\ {i \in 1..Len(fe_out) : fe_out[i][8] = 1} = {6, 12, 13}

\* C7: assign_season is total on 1..12 with the fixed table (12,1,2 -> 3;
\* 3,4,5 -> 0; 6,7,8 -> 1; 9,10,11 -> 2), and every row's season column is
\* that table applied to the row's month column.
C7_SeasonMapping ==
    /\ \A m \in 1..12 : assign_season(m) \in 0..3 /\ assign_season(m) = SeasonTable[m]
    /\ FECalled =>
          \A i \in 1..Len(fe_out) :
              /\ fe_out[i][5] \in 1..12
              /\ fe_out[i][6] = SeasonTable[fe_out[i][5]]

\* a window running from winter into spring
C7_Witness ==
    /\ FECalled
    /\ fe_out[1][5] = 2 /\ fe_out[1][6] = 3
    /\ fe_out[14][5] = 3 /\ fe_out[14][6] = 0

\* C8: row i holds, in the fixed column order, the inputs and the calendar
\* fields of start_date + i days (weekday with Monday = 0, month, season,
\* quarter = (month-1) div 3 + 1, holiday flag, day of month, year); for
\* start_date 2024-01-01 row 0 is weekday 0, month 1, season 3, quarter 1,
\* holiday 1, day 1, year 2024.
C8_RowFields ==
    FECalled =>
        /\ \A i \in 1..14 :
              LET d == DayAfter(fe_in.start_date, i - 1) IN
              fe_out[i] = << fe_in.min_nights, fe_in.max_nights, fe_in.avg_price,
                             RefWeekday(d), d.month, SeasonTable[d.month],
                             ((d.month - 1) \div 3) + 1, RefHoliday(d),
                             d.day, d.year >>
        /\ fe_in.start_date = [year |-> 2024, month |-> 1, day |-> 1] =>
              SubSeq(fe_out[1], 4, 10) = <<0, 1, 3, 1, 1, 1, 2024>>

\* a window that contains the leap day 2024-02-29 and ends in March
C8_Witness ==
    /\ FECalled
    /\ fe_in.start_date = [year |-> 2024, month |-> 2, day |-> 20]
    /\ fe_out[10][5] = 2 /\ fe_out[10][9] = 29
    /\ fe_out[11][5] = 3 /\ fe_out[11][9] = 1

----------------------------------------------------------------------------
(* The page: cached resources, Predictor and Presentation Layer *)

Sessions == 1..NumSessions

\* values the sidebar widgets can hold in the page specification
AppDates  == { [year |-> 2024, month |-> 1, day |-> 1],
               [year |-> 2024, month |-> 2, day |-> 23] }
AppInputs == [start_date : AppDates, avg_price : {100}, min_nights : {1},
              max_nights : {7}]

\* vectors the opaque model artifact can return after inverse scaling and
\* flatten(), in cents: one value per output step
PredLens == {7, 14}
ModelOutputs == { [k \in 1..n |-> 9000 + 125 * k] : n \in PredLens }

\* exceptions the library calls of the try block can raise
PredictStages == {"features", "scale", "infer", "inverse"}
StageError(stage) ==
    CASE stage = "features" -> "feature generation failed"
      [] stage = "scale"    -> "X has a different number of features"
      [] stage = "infer"    -> "model inference failed"
      [] stage = "inverse"  -> "Found array with dim 3"
      [] stage = "frame"    -> "All arrays must be of the same length"
      [] stage = "table"    -> "'Styler' object has no attribute 'hide_index'"
      [] stage = "plot"     -> "x and y must have same first dimension"
      [] stage = "chart"    -> "chart rendering failed"

MONTH_NAMES == <<"January", "February", "March", "April", "May", "June", "July",
                 "August", "September", "October", "November", "December">>
DAY_NAMES   == <<"Monday", "Tuesday", "Wednesday", "Thursday", "Friday",
                 "Saturday", "Sunday">>

\* date.strftime('%B %d, %Y')
strftime_long(d) ==
    MONTH_NAMES[d.month] \o " " \o pad2(d.day) \o ", " \o ToString(d.year)

\* date.strftime('%A')
strftime_weekday(d) == DAY_NAMES[dayofweek(d) + 1]

\* f"${price:.2f}" for a price given in cents
format_price(cents) == "$" \o ToString(cents \div 100) \o "." \o pad2(cents % 100)

DISPLAY_DAYS == 7    \* range(7) and the seven 'Day #k' labels

\* dates = [start_date + timedelta(days=i+1) for i in range(7)]
display_dates(start_date) == [k \in 1..DISPLAY_DAYS |-> add_days(start_date, k)]

\* the four columns handed to pd.DataFrame
frame_columns(start_date, preds) ==
    LET dates == display_dates(start_date) IN
    [label   |-> [k \in 1..DISPLAY_DAYS |-> "Day #" \o ToString(k)],
     date    |-> [k \in 1..Len(dates) |-> strftime_long(dates[k])],
     price   |-> [k \in 1..Len(preds) |-> format_price(preds[k])],
     weekday |-> [k \in 1..Len(dates) |-> strftime_weekday(dates[k])]]

\* pd.DataFrame raises ValueError unless all columns have the same length
frame_ok(cols) ==
    /\ Len(cols.date) = Len(cols.label)
    /\ Len(cols.price) = Len(cols.label)
    /\ Len(cols.weekday) = Len(cols.label)

frame_rows(cols) ==
    [k \in 1..Len(cols.label) |->
        [label |-> cols.label[k], date |-> cols.date[k],
         price |-> cols.price[k], weekday |-> cols.weekday[k]]]

\* a script run starts: elements of the previous run are discarded
StartRun(s, pressed, in) ==
    /\ pc' = [pc EXCEPT ![s] = "load"]
    /\ button' = [button EXCEPT ![s] = pressed]
    /\ inputs' = [inputs EXCEPT ![s] = in]
    /\ predictions' = [predictions EXCEPT ![s] = <<>>]
    /\ table' = [table EXCEPT ![s] = <<>>]
    /\ chart' = [chart EXCEPT ![s] = <<>>]
    /\ error' = [error EXCEPT ![s] = ""]
    /\ raised' = [raised EXCEPT ![s] = ""]
    /\ UNCHANGED <<feVars, artifact, modelCache, scalerCache, readLog>>

\* a browser opens the page, or reloads it after a run that ended with an
\* uncaught exception: a run with the widget defaults, the button reads False
Connect(s) ==
    /\ pc[s] \in {"new", "aborted"}
    /\ \E in \in AppInputs : StartRun(s, FALSE, in)

\* the user edits a sidebar widget: rerun, the button reads False
ChangeInput(s) ==
    /\ pc[s] = "idle"
    /\ \E in \in AppInputs \ {inputs[s]} : StartRun(s, FALSE, in)

\* the user clicks 'Predict Prices': rerun, the button reads True
PressPredict(s) ==
    /\ pc[s] = "idle"
    /\ StartRun(s, TRUE, inputs[s])

NoScalers == [id |-> 0, fit |-> 0]

\* variant: a missing artifact is swallowed and the run goes on without a model
load_model_lenient(s) ==
    /\ pc[s] = "load"
    /\ modelCache' = IF modelCache = 0 /\ artifact = "ok" THEN 1 ELSE modelCache
    /\ pc' = [pc EXCEPT ![s] = "scalers"]
    /\ UNCHANGED <<feVars, artifact, scalerCache, readLog, button, inputs,
                   predictions, table, chart, error, raised>>

\* line 32, model = load_model() under @st.cache_resource: the body runs on
\* a cache miss only; an exception is not cached and ends the script run
load_model(s) ==
    /\ pc[s] = "load"
    /\ IF modelCache # 0
       THEN /\ pc' = [pc EXCEPT ![s] = "scalers"]
            /\ UNCHANGED modelCache
       ELSE IF artifact = "ok"
       THEN /\ modelCache' = 1
            /\ pc' = [pc EXCEPT ![s] = "scalers"]
       ELSE /\ pc' = [pc EXCEPT ![s] = "aborted"]
            /\ UNCHANGED modelCache
    /\ UNCHANGED <<feVars, artifact, scalerCache, readLog, button, inputs,
                   predictions, table, chart, error, raised>>

\* variant: no caching, the scalers are refitted on fresh random data in every run
create_scalers_uncached(s) ==
    /\ pc[s] = "scalers"
    /\ \E fit \in 1..NumScalerFits :
          scalerCache' = [id |-> (scalerCache.id % 2) + 1, fit |-> fit]
    /\ pc' = [pc EXCEPT ![s] = "main"]
    /\ UNCHANGED <<feVars, artifact, modelCache, readLog, button, inputs,
                   predictions, table, chart, error, raised>>

\* line 33, create_scalers() under @st.cache_resource: on a cache miss both
\* scalers are fitted on np.random.rand samples
create_scalers(s) ==
    /\ pc[s] = "scalers"
    /\ IF scalerCache # NoScalers
       THEN UNCHANGED scalerCache
       ELSE \E fit \in 1..NumScalerFits : scalerCache' = [id |-> 1, fit |-> fit]
    /\ pc' = [pc EXCEPT ![s] = "main"]
    /\ UNCHANGED <<feVars, artifact, modelCache, readLog, button, inputs,
                   predictions, table, chart, error, raised>>

\* lines 108-122: the sidebar is drawn and the button is tested
main(s) ==
    /\ pc[s] = "main"
    /\ pc' = [pc EXCEPT ![s] = IF button[s] THEN "predict" ELSE "idle"]
    /\ UNCHANGED <<feVars, artifact, modelCache, scalerCache, readLog, button,
                   inputs, predictions, table, chart, error, raised>>

\* variant: the try block ends before the rendering calls, whose exceptions
\* then leave the script run uncaught
except_handler_narrow(s, stage) ==
    IF stage \in PredictStages
    THEN /\ error' = [error EXCEPT ![s] = "An error occurred: " \o StageError(stage)]
         /\ pc' = [pc EXCEPT ![s] = "idle"]
    ELSE /\ pc' = [pc EXCEPT ![s] = "aborted"]
         /\ UNCHANGED error

\* lines 155-180: except Exception as e: st.error(f"An error occurred: {e}"),
\* then st.markdown with the style sheet, and the script run ends
except_handler(s, stage) ==
    /\ error' = [error EXCEPT ![s] = "An error occurred: " \o StageError(stage)]
    /\ pc' = [pc EXCEPT ![s] = "idle"]

\* an exception leaves a statement of the try block
Raise(s, stage) ==
    /\ raised' = [raised EXCEPT ![s] = StageError(stage)]
    /\ except_handler(s, stage)

\* line 91: the table predict_prices builds from the sidebar values of session s
features_of(s) ==
    generate_feature_engineering(inputs[s].start_date, inputs[s].avg_price,
                                 inputs[s].min_nights, inputs[s].max_nights)

\* line 94: features.reshape(1, 14, 10) needs a table of 14 rows of 10 cells
reshape_ok(f) == Len(f) = WINDOW /\ \A i \in 1..Len(f) : Len(f[i]) = 10

\* lines 125 and 86-105: features, reshape, scaling, inference, inverse
\* scaling; the scalers and the model are read once the features are built
predict_prices(s) ==
    /\ pc[s] = "predict"
    /\ \/ /\ Raise(s, "features")
          /\ UNCHANGED <<predictions, readLog>>
       \/ /\ reshape_ok(features_of(s))
          /\ \E stage \in PredictStages \ {"features"} : Raise(s, stage)
          /\ readLog' = readLog \cup {<<modelCache, scalerCache>>}
          /\ UNCHANGED predictions
       \/ /\ reshape_ok(features_of(s))
          /\ readLog' = readLog \cup {<<modelCache, scalerCache>>}
          /\ \E out \in ModelOutputs : predictions' = [predictions EXCEPT ![s] = out]
          /\ pc' = [pc EXCEPT ![s] = "table"]
          /\ UNCHANGED <<error, raised>>
    /\ UNCHANGED <<feVars, artifact, modelCache, scalerCache, button, inputs,
                   table, chart>>

\* lines 127-141: dates, pred_df, styling, st.table
build_table(s) ==
    /\ pc[s] = "table"
    /\ LET cols == frame_columns(inputs[s].start_date, predictions[s]) IN
       IF ~frame_ok(cols)
       THEN /\ Raise(s, "frame")
            /\ UNCHANGED table
       ELSE \/ /\ Raise(s, "table")
               /\ UNCHANGED table
            \/ /\ table' = [table EXCEPT ![s] = frame_rows(cols)]
               /\ pc' = [pc EXCEPT ![s] = "chart"]
               /\ UNCHANGED <<error, raised>>
    /\ UNCHANGED <<feVars, artifact, modelCache, scalerCache, readLog, button,
                   inputs, predictions, chart>>

\* lines 145-180: ax.plot(dates, predictions), st.pyplot(fig); after the try
\* block st.markdown with the style sheet, and the script run ends
plot_chart(s) ==
    /\ pc[s] = "chart"
    /\ LET dates == display_dates(inputs[s].start_date) IN
       IF Len(dates) # Len(predictions[s])
       THEN /\ Raise(s, "plot")
            /\ UNCHANGED chart
       ELSE \/ /\ Raise(s, "chart")
               /\ UNCHANGED chart
            \/ /\ chart' = [chart EXCEPT ![s] =
                      [k \in 1..Len(dates) |-> <<dates[k], predictions[s][k]>>]]
               /\ pc' = [pc EXCEPT ![s] = "idle"]
               /\ UNCHANGED <<error, raised>>
    /\ UNCHANGED <<feVars, artifact, modelCache, scalerCache, readLog, button,
                   inputs, predictions, table>>

Init ==
    /\ fe_in = NoInput
    /\ fe_out = <<>>
    /\ InitApp

Next ==
    \E s \in Sessions :
        \/ Connect(s)
        \/ ChangeInput(s)
        \/ PressPredict(s)
        \/ load_model(s)
        \/ create_scalers(s)
        \/ main(s)
        \/ predict_prices(s)
        \/ build_table(s)
        \/ plot_chart(s)

Spec == Init /\ [][Next]_vars

----------------------------------------------------------------------------
(* Properties of the page (checked under Spec) *)

RunEnded(s)  == pc[s] = "idle" /\ button[s]
Predicting(s) == pc[s] \in {"predict", "table", "chart"}
Success(s)   == table[s] # <<>> /\ chart[s] # <<>> /\ error[s] = ""
Failure(s)   == error[s] # "" /\ table[s] = <<>> /\ chart[s] = <<>>

\* the seven rows the forecast table should show for the given predictions
ExpectedRows(start_date, preds) ==
    [k \in 1..7 |->
        LET d == DayAfter(start_date, k) IN
        [label   |-> "Day #" \o ToString(k),
         date    |-> MONTH_NAMES[d.month] \o " " \o pad2(d.day) \o ", " \o ToString(d.year),
         price   |-> format_price(preds[k]),
         weekday |-> DAY_NAMES[RefWeekday(d) + 1]]]

\* C1: whenever the Predictor returned 14 predictions the run ends in
\* Success and the table shows exactly 7 rows, predictions 0..6 in order
\* with the dates start_date+1 .. start_date+7 and their weekday names.
C1_FirstSevenOfFourteen ==
    \A s \in Sessions :
        (RunEnded(s) /\ Len(predictions[s]) = 14) =>
            /\ Success(s)
            /\ table[s] = ExpectedRows(inputs[s].start_date, predictions[s])

\* C2: an exception raised inside the try block is caught: the page shows
\* the one message "An error occurred: <exception text>", the run is not
\* aborted but ends in Idle, and from there the Predict trigger is available
\* again; no message is shown without an exception.
C2_ExceptionCaught ==
    \A s \in Sessions :
        /\ raised[s] # "" =>
              /\ error[s] = "An error occurred: " \o raised[s]
              /\ pc[s] = "idle"
              /\ ENABLED PressPredict(s)
        /\ error[s] # "" => raised[s] # ""

\* an exception of the chart rendering was caught and the page is idle again
C2_Witness ==
    \E s \in Sessions :
        /\ raised[s] = StageError("chart")
        /\ pc[s] = "idle"
        /\ error[s] = "An error occurred: chart rendering failed"

\* C4: the Predictor runs only in a run started by the trigger, nothing is
\* rendered by a run without trigger, and a triggered run that has ended
\* shows either table and chart without error message or an error message
\* without table and chart; table and error message never appear together.
C4_OneOutcome ==
    \A s \in Sessions :
        /\ Predicting(s) => button[s]
        /\ ~button[s] => table[s] = <<>> /\ chart[s] = <<>> /\ error[s] = ""
        /\ RunEnded(s) => (Success(s) \/ Failure(s))
        /\ error[s] # "" => table[s] = <<>>

\* C5: with a missing or malformed artifact every run ends in load_model,
\* before main: no session gets past the load, nothing is predicted or
\* displayed, and the failure is not shown by the handler of the trigger;
\* every prediction call has read a loaded model.
C5_NoPredictionWithoutModel ==
    /\ \A s \in Sessions :
          /\ (pc[s] \in {"scalers", "main", "predict", "table", "chart", "idle"}
              \/ predictions[s] # <<>>
              \/ table[s] # <<>> \/ chart[s] # <<>>)
                 => (artifact = "ok" /\ modelCache # 0)
          /\ pc[s] = "aborted" =>
                /\ artifact # "ok"
                /\ error[s] = "" /\ raised[s] = ""
                /\ table[s] = <<>> /\ chart[s] = <<>> /\ predictions[s] = <<>>
    /\ \A r \in readLog : r[1] # 0

\* the artifact is missing and a run has ended in load_model
C5_Witness ==
    /\ artifact = "missing"
    /\ \E s \in Sessions : pc[s] = "aborted"
    /\ modelCache = 0

\* at most one model and one pair of scalers ever exist, and every logged
\* prediction call has read exactly those
CachesStable ==
    /\ modelCache \in {0, 1}
    /\ scalerCache.id \in {0, 1}
    /\ Cardinality(readLog) <= 1
    /\ \A r \in readLog : r[1] = modelCache /\ r[2] = scalerCache /\ r[2] # NoScalers

\* C9: the cached model and scalers are created once and never replaced or
\* changed afterwards, by any step of any session; all prediction calls of
\* all sessions read one and the same model and scaler parameters.
C9_SharedReadOnly ==
    /\ []CachesStable
    /\ [][/\ modelCache # 0 => modelCache' = modelCache
          /\ scalerCache # NoScalers => scalerCache' = scalerCache]_vars

\* two sessions are inside their try blocks at the same time, after both
\* have called predict_prices
C9_Witness ==
    /\ \A s \in {1, 2} : pc[s] \in {"table", "chart"} /\ predictions[s] # <<>>
    /\ Cardinality(readLog) = 1

\* C10: the date and the weekday name shown in table row k are those of the
\* date of feature row k, so the weekday name agrees with the day_of_week
\* feature of that row.
C10_LabelIsInputDate ==
    \A s \in Sessions :
        table[s] # <<>> =>
            \A k \in 1..Len(table[s]) :
                LET row == features_of(s)[k]
                    d   == [year |-> row[10], month |-> row[5], day |-> row[9]]
                IN  /\ table[s][k].date =
                          MONTH_NAMES[d.month] \o " " \o pad2(d.day) \o ", " \o ToString(d.year)
                    /\ table[s][k].weekday = DAY_NAMES[row[4] + 1]

====
